---- MODULE Spec2Model ----
(***************************************************************************)
(* A model of the Honda Odyssey inventory tool (src/main.py, src/util.py). *)
(*                                                                         *)
(* Python values are tagged records: None, str (a sequence of character    *)
(* symbols), int, float (an exact decimal num/den) and "other" (a value    *)
(* of an unexpected type, known by its str()).  A dict is a function whose *)
(* DOMAIN is the set of keys present.  A call's outcome is either a        *)
(* returned value or a raised exception.                                   *)
(***************************************************************************)
EXTENDS Integers, Sequences, FiniteSets, TLC

VARIABLES
    fp_in, fp_out,                  \* format_price: argument, outcome
    hv_in, hv_out,                  \* harvesine: arguments, result
    data,                           \* the parsed API response
    g_pc,                           \* the generator: idle, created, suspended,
                                    \*   done (exhausted), raised
    g_map, g_i, g_j,                \* its frame: dealer_map, item and VIN index
    rows, rows_src,                 \* rows yielded, and the <<item, VIN entry>>
                                    \*   each came from
    calls, prev,                    \* invocations so far, the previous outcome
    m_entry,                        \* the function called: "main" or
                                    \*   "get_honda_odyssey_inventory"
    m_cookie,                       \* its cookie_string argument
    env_file, env_net, env_disk,    \* the .cookie file, the network, the disk
    m_pc,                           \* where the call is
    m_log,                          \* the steps taken, in order
    m_df,                           \* the rows of the DataFrame
    m_csv,                          \* whether the CSV file was written
    m_handler, m_exc                \* the except clause run, the exception
                                    \*   propagated to the caller

fpVars == <<fp_in, fp_out>>
hvVars == <<hv_in, hv_out>>
genVars == <<data, g_pc, g_map, g_i, g_j, rows, rows_src, calls, prev>>
mainVars ==
    <<m_entry, m_cookie, env_file, env_net, env_disk, m_pc, m_log, m_df, m_csv,
      m_handler, m_exc>>
vars == <<fpVars, hvVars, genVars, mainVars>>

(***************************************************************************)
(* Bounds of the model.                                                    *)
(***************************************************************************)
MaxPriceLen == 5
MaxDealers == 2
MaxItems == 2
MaxVins == 2
MaxCalls == 2

(***************************************************************************)
(* Python values.                                                          *)
(***************************************************************************)
PyNone == [t |-> "None"]
PyStr(s) == [t |-> "str", s |-> s]
PyInt(n) == [t |-> "int", n |-> n]
PyFloat(num, den) == [t |-> "float", num |-> num, den |-> den]
PyOther(repr) == [t |-> "other", repr |-> repr]

Unset == [k |-> "unset"]
Ret(v) == [k |-> "ret", v |-> v]
Raise(exc) == [k |-> "raise", exc |-> exc]

\* Character symbols.  "SUP2" stands for U+00B2 (superscript two): a
\* character str.isdigit() accepts and float() rejects.
DecimalChars == <<"0", "1", "2", "3", "4", "5", "6", "7", "8", "9">>
IsDecimalChar(c) == \E i \in 1..10 : DecimalChars[i] = c
DecimalValue(c) == (CHOOSE i \in 1..10 : DecimalChars[i] = c) - 1
\* str.isdigit() per character: the decimal digits and the other characters
\* of Unicode's Digit property.
IsDigitChar(c) == IsDecimalChar(c) \/ c = "SUP2"

RECURSIVE NatToStr(_)
NatToStr(n) ==
    IF n < 10 THEN <<DecimalChars[n + 1]>>
    ELSE NatToStr(n \div 10) \o <<DecimalChars[(n % 10) + 1]>>

\* str(n) of an int
IntToStr(n) == IF n < 0 THEN <<"-">> \o NatToStr(0 - n) ELSE NatToStr(n)

\* str(v): the string itself, "None", the digits of an int.
\* (str() of a float is not needed: format_price never stringifies one.)
StrOf(v) ==
    CASE v.t = "str" -> v.s
      [] v.t = "None" -> <<"N", "o", "n", "e">>
      [] v.t = "int" -> IntToStr(v.n)
      [] v.t = "other" -> v.repr

\* Truthiness of a value (bool(v)), as `or` and `not` use it.
Truthy(v) ==
    CASE v.t = "str" -> Len(v.s) > 0
      [] v.t = "None" -> FALSE
      [] v.t = "int" -> v.n # 0
      [] v.t = "float" -> v.num # 0
      [] v.t = "other" -> TRUE

(***************************************************************************)
(* format_price (src/main.py:142-160)                                      *)
(***************************************************************************)
\* s.replace(".", "", 1): the first "." removed
RECURSIVE ReplaceFirstDot(_)
ReplaceFirstDot(s) ==
    IF s = <<>> THEN <<>>
    ELSE IF Head(s) = "." THEN Tail(s)
    ELSE <<Head(s)>> \o ReplaceFirstDot(Tail(s))

\* s.isdigit(): non-empty and every character a digit
IsDigit(s) == Len(s) > 0 /\ \A i \in 1..Len(s) : IsDigitChar(s[i])

RECURSIVE Pow10(_)
Pow10(k) == IF k = 0 THEN 1 ELSE 10 * Pow10(k - 1)

RECURSIVE DigitsValue(_)
DigitsValue(s) ==
    IF s = <<>> THEN 0
    ELSE 10 * DigitsValue(SubSeq(s, 1, Len(s) - 1)) + DecimalValue(s[Len(s)])

\* float(s), for a string s of digit characters and at most one ".":
\* the decimal it denotes, or ValueError when a character is no decimal digit.
ParseFloat(s) ==
    LET digits == ReplaceFirstDot(s)
        dot == IF \E i \in 1..Len(s) : s[i] = "."
               THEN CHOOSE i \in 1..Len(s) : s[i] = "." ELSE 0
        frac == IF dot = 0 THEN 0 ELSE Len(s) - dot
    IN  IF digits # <<>> /\ \A i \in 1..Len(digits) : IsDecimalChar(digits[i])
        THEN Ret(PyFloat(DigitsValue(digits), Pow10(frac)))
        ELSE Raise("ValueError")

\* The ".0f" rounding of a non-negative decimal: to the nearest integer,
\* a tie to the even one.
RoundHalfEven(num, den) ==
    LET q == num \div den
        r == num % den
    IN  IF 2 * r < den THEN q
        ELSE IF 2 * r > den THEN q + 1
        ELSE IF q % 2 = 0 THEN q ELSE q + 1

Pad3(n) ==
    <<DecimalChars[(n \div 100) + 1], DecimalChars[((n \div 10) % 10) + 1],
      DecimalChars[(n % 10) + 1]>>

\* The "," grouping of a natural number
RECURSIVE Group(_)
Group(n) ==
    IF n < 1000 THEN NatToStr(n)
    ELSE Group(n \div 1000) \o <<",">> \o Pad3(n % 1000)

\* f"${x:,.0f}" of a number given as num/den (den > 0)
Currency(num, den) ==
    IF num < 0 THEN <<"$", "-">> \o Group(RoundHalfEven(0 - num, den))
    ELSE <<"$">> \o Group(RoundHalfEven(num, den))

FormatPrice(price) ==
    IF price = PyNone THEN Ret(<<"N", "/", "A">>)
    ELSE IF price.t = "str" /\ IsDigit(ReplaceFirstDot(price.s))
    THEN LET f == ParseFloat(price.s)
         IN  IF f.k = "raise" THEN f ELSE Ret(Currency(f.v.num, f.v.den))
    ELSE IF price.t = "int" THEN Ret(Currency(price.n, 1))
    ELSE IF price.t = "float" THEN Ret(Currency(price.num, price.den))
    ELSE Ret(StrOf(price))

(***************************************************************************)
(* Dicts.                                                                  *)
(***************************************************************************)
EmptyDict == <<>>
\* d.get(k, default)
Get(d, k, default) == IF k \in DOMAIN d THEN d[k] ELSE default
\* d[k] = v
Put(d, k, v) == [x \in (DOMAIN d) \cup {k} |-> IF x = k THEN v ELSE d[x]]

EmptyStr == PyStr(<<>>)
\* A text of one symbol
Txt(sym) == PyStr(<<sym>>)

(***************************************************************************)
(* build_dealer_map (src/main.py:115-139)                                  *)
(***************************************************************************)
DealerRecord(dealer) ==
    [name |-> Get(dealer, "Name", EmptyStr),
     address1 |-> Get(dealer, "Address1", EmptyStr),
     city |-> Get(dealer, "City", EmptyStr),
     state |-> Get(dealer, "State", EmptyStr),
     postal |-> Get(dealer, "ZipCode", EmptyStr),
     phone |-> Get(dealer, "Phone", EmptyStr),
     lat |-> Get(dealer, "Latitude", PyNone),
     lon |-> Get(dealer, "Longitude", PyNone),
     retail_url |-> Get(dealer, "OnlineRetailingURL", EmptyStr)]

\* dealer_num = str(dealer.get("DealerNumber"))
DealerKey(d) == StrOf(Get(d, "DealerNumber", PyNone))

\* (mutant) the first dealer of a number is kept
DealerMapStoreFirst(dealer_map, dealer) ==
    IF StrOf(Get(dealer, "DealerNumber", PyNone)) \in DOMAIN dealer_map
    THEN dealer_map
    ELSE Put(dealer_map, StrOf(Get(dealer, "DealerNumber", PyNone)),
             DealerRecord(dealer))

\* One turn of the loop: dealer_map[dealer_num] = {...}
DealerMapStore(dealer_map, dealer) ==
    Put(dealer_map, DealerKey(dealer), DealerRecord(dealer))

RECURSIVE DealerMapLoop(_, _)
DealerMapLoop(dealers, dealer_map) ==
    IF dealers = <<>> THEN dealer_map
    ELSE DealerMapLoop(Tail(dealers), DealerMapStore(dealer_map, Head(dealers)))

BuildDealerMap(d) == DealerMapLoop(Get(d, "dealers", <<>>), EmptyDict)

(***************************************************************************)
(* iter_inventory_rows (src/main.py:163-210)                               *)
(***************************************************************************)
\* dealer_info = dealer_map.get(str(item.get("DealerNumber")), {})
DealerInfo(item, dealer_map) == Get(dealer_map, DealerKey(item), EmptyDict)

\* (mutant) the base model color tried first
ColorBaseFirst(item) ==
    LET ext == Get(item, "ExteriorColor", PyNone)
        base == Get(item, "ModelBaseColor", PyNone)
    IN  IF Truthy(base) THEN base
        ELSE IF Truthy(ext) THEN ext
        ELSE Txt("(Unknown color)")

\* item.get("ExteriorColor") or item.get("ModelBaseColor") or "(Unknown color)"
Color(item) ==
    LET ext == Get(item, "ExteriorColor", PyNone)
        base == Get(item, "ModelBaseColor", PyNone)
    IN  IF Truthy(ext) THEN ext
        ELSE IF Truthy(base) THEN base
        ELSE Txt("(Unknown color)")

\* price = format_price(item.get("ModelMSRP")): returned or raised
ItemPrice(item) == FormatPrice(Get(item, "ModelMSRP", PyNone))

\* The dict yielded for one VIN of an item
Row(item, dealer_map, vin) ==
    LET dealer_info == DealerInfo(item, dealer_map)
    IN  [dealer |-> Get(dealer_info, "name", Txt("Unknown dealer")),
         address1 |-> Get(dealer_info, "address1", EmptyStr),
         city |-> Get(dealer_info, "city", EmptyStr),
         state |-> Get(dealer_info, "state", EmptyStr),
         postal |-> Get(dealer_info, "postal", EmptyStr),
         phone |-> Get(dealer_info, "phone", EmptyStr),
         lat |-> Get(dealer_info, "lat", EmptyStr),
         lon |-> Get(dealer_info, "lon", EmptyStr),
         retail_url |-> Get(dealer_info, "retail_url", EmptyStr),
         trim |-> Get(item, "ModelTrim", EmptyStr),
         inv_type |-> Get(item, "InventoryType", EmptyStr),
         color |-> Color(item),
         vin |-> vin,
         price |-> PyStr(ItemPrice(item).v),
         interior_color |-> Get(item, "InteriorColor", EmptyStr)]

\* `if not vin: continue`
SkipVin(vin) == ~Truthy(vin)

\* The generator resumed at item i, VIN entry j (j = 0: item i not yet
\* entered), run to its next yield, to its end, or to an exception.
RECURSIVE Advance(_, _, _, _)
Advance(items, dealer_map, i, j) ==
    IF i > Len(items) THEN [k |-> "stop"]
    ELSE LET item == items[i]
             vins == Get(item, "VINs", <<>>)
         IN  IF j = 0
             THEN IF ItemPrice(item).k = "raise"
                  THEN Raise(ItemPrice(item).exc)
                  ELSE Advance(items, dealer_map, i, 1)
             ELSE IF j > Len(vins) THEN Advance(items, dealer_map, i + 1, 0)
             ELSE LET vin == Get(vins[j], "VIN", PyNone)
                  IN  IF SkipVin(vin) THEN Advance(items, dealer_map, i, j + 1)
                      ELSE [k |-> "yield", row |-> Row(item, dealer_map, vin),
                            i |-> i, j |-> j]

\* The items the loop of line 175 walks
Inventory(d) == Get(d, "inventory", <<>>)

(***************************************************************************)
(* The inputs of format_price.                                             *)
(***************************************************************************)
PriceAlphabet == {"0", "2", "5", ".", "SUP2", "N"}

\* The sequences over a set, of length at most n
RECURSIVE SeqsUpTo(_, _)
SeqsUpTo(alphabet, n) ==
    IF n = 0 THEN {<<>>}
    ELSE LET shorter == SeqsUpTo(alphabet, n - 1)
         IN  shorter \cup {Append(s, c) : s \in shorter, c \in alphabet}

PriceStrings == SeqsUpTo(PriceAlphabet, MaxPriceLen)

PriceNumbers ==
    {PyInt(n) : n \in {0, 5, 999, 1000, 45000, 1234567, -1234}}
    \cup {PyFloat(f[1], f[2]) :
            f \in {<<450004, 10>>, <<5, 10>>, <<15, 10>>, <<25, 10>>,
                   <<9995, 10>>, <<4500049, 100>>}}

PriceInputs ==
    {PyNone} \cup {PyStr(s) : s \in PriceStrings}
    \cup {PyStr(<<"N", "/", "A">>), PyStr(<<"$", "4", "5", ",", "0", "0", "0">>),
          PyStr(<<"-", "5">>)}
    \cup PriceNumbers
    \cup {PyOther(<<"[", "]">>)}

(***************************************************************************)
(* The responses tried.  A field is absent or present with a value; a      *)
(* valid VIN is named after its place, "V<item><entry>".                   *)
(***************************************************************************)
Absent == [p |-> FALSE]
Present(v) == [p |-> TRUE, v |-> v]
Without(d, k) == [x \in (DOMAIN d) \ {k} |-> d[x]]
SetOpt(d, k, opt) == IF opt.p THEN Put(d, k, opt.v) ELSE Without(d, k)

Num100 == <<"1", "0", "0">>
Num200 == <<"2", "0", "0">>
Msrp45000 == <<"4", "5", "0", "0", "0">>

BaseHead ==
    [DealerNumber |-> PyStr(Num100), ExteriorColor |-> Txt("Red"),
     ModelBaseColor |-> Txt("Silver"), ModelMSRP |-> PyStr(Msrp45000),
     ModelTrim |-> Txt("EX"), InventoryType |-> Txt("In-Stock"),
     InteriorColor |-> Txt("Black")]

ColorHeads ==
    {SetOpt(SetOpt(BaseHead, "ExteriorColor", e), "ModelBaseColor", b) :
        e \in {Absent, Present(EmptyStr), Present(Txt("Red"))},
        b \in {Absent, Present(EmptyStr), Present(Txt("Silver"))}}

DealerNumberHeads ==
    {SetOpt(BaseHead, "DealerNumber", n) :
        n \in {Absent, Present(PyStr(Num100)), Present(PyInt(100)),
               Present(PyStr(Num200))}}

MsrpHeads ==
    {SetOpt(h, "ModelMSRP", m) :
        h \in {BaseHead},
        m \in {Absent, Present(PyStr(Msrp45000)), Present(PyInt(45000)),
               Present(PyStr(<<"SUP2">>))}}
    \cup {SetOpt(h, "ModelMSRP", Present(PyStr(<<"SUP2">>))) :
            h \in DealerNumberHeads}

\* A VIN entry has no "VIN", an empty one, or a valid one
VinName(i, j) == PyStr(<<"V", DecimalChars[i + 1], DecimalChars[j + 1]>>)
VinEntry(kind, i, j) ==
    CASE kind = "absent" -> EmptyDict
      [] kind = "empty" -> [k \in {"VIN"} |-> EmptyStr]
      [] kind = "valid" -> [k \in {"VIN"} |-> VinName(i, j)]

\* An item before its VINs are named: its other fields, and its VIN entries
Shape(head, hasVins, kinds) ==
    [head |-> head, hasVins |-> hasVins, kinds |-> kinds]

Realize(shape, i) ==
    IF shape.hasVins
    THEN Put(shape.head, "VINs",
             [j \in 1..Len(shape.kinds) |-> VinEntry(shape.kinds[j], i, j)])
    ELSE shape.head

\* Items that differ in their VIN entries
VinShapes ==
    {Shape(BaseHead, TRUE, ks) :
        ks \in SeqsUpTo({"empty", "valid"}, MaxVins)
                \cup {<<"absent">>, <<"absent", "valid">>}}

\* Items of one VIN that differ in their other fields, and one without "VINs"
AttrShapes ==
    {Shape(h, TRUE, <<"valid">>) :
        h \in ColorHeads \cup DealerNumberHeads \cup MsrpHeads \cup {EmptyDict}}
    \cup {Shape(BaseHead, FALSE, <<>>)}

DealerBodies ==
    {[Name |-> Txt("Acme"), Address1 |-> Txt("1 Main St"),
      City |-> Txt("Austin"), State |-> Txt("TX"), ZipCode |-> Txt("78723"),
      Phone |-> Txt("555-0100"), Latitude |-> PyFloat(303, 10),
      Longitude |-> PyFloat(-977, 10),
      OnlineRetailingURL |-> Txt("https://acme.example")],
     [Name |-> Txt("Zed")],
     EmptyDict}

Dealers ==
    {SetOpt(b, "DealerNumber", n) :
        b \in DealerBodies,
        n \in {Absent, Present(PyStr(Num100)), Present(PyInt(100))}}

AcmeDealers ==
    <<[DealerNumber |-> PyStr(Num100), Name |-> Txt("Acme"),
       City |-> Txt("Austin"), Latitude |-> PyFloat(303, 10)]>>

\* The responses tried: one dealer and an inventory of items that differ in
\* their VIN entries, or in their other fields; a response without
\* "inventory", and the empty one; every dealer list (or none) and an
\* inventory of one item, with a dealer number or none.
IsResponse(d) ==
    \/ \E shapes \in {VinShapes, AttrShapes} :
         \E n \in 0..MaxItems :
           \E f \in [1..n -> shapes] :
             d = [dealers |-> AcmeDealers,
                  inventory |-> [i \in 1..n |-> Realize(f[i], i)]]
    \/ d \in {[dealers |-> AcmeDealers], EmptyDict}
    \/ \E h \in DealerNumberHeads :
         \E n \in 0..MaxDealers :
           \E l \in [1..n -> Dealers] :
             \E ds \in {Absent, Present(l)} :
               d = SetOpt([inventory |->
                             <<Realize(Shape(h, TRUE, <<"valid">>), 1)>>],
                          "dealers", ds)

(***************************************************************************)
(* harvesine (src/util.py:1-15)                                            *)
(*                                                                         *)
(* Coordinates are degrees, multiples of 60, where every quantity of the   *)
(* formula is exact: an angle in radians is counted in units of pi/3,      *)
(* sin(x/2)**2 in quarters, cos(x) in halves, a in sixteenths, c in        *)
(* units of 1e-4 radian, the distance in units of 1e-5 mile.               *)
(***************************************************************************)
EarthRadiusTenths == 39588

\* math.radians, in units of pi/3
Radians(deg) == deg \div 60

\* 4 * sin(x / 2) ** 2
SinHalfSq4(x) == <<0, 1, 3, 4, 3, 1>>[(x % 6) + 1]

\* 2 * cos(x)
Cos2(x) == <<2, 1, -1, -2, -1, 1>>[(x % 6) + 1]

\* (mutant) cos(lat1) taken twice
HavA16SameLat(lat1, lon1, lat2, lon2) ==
    LET dLat == lat2 - lat1
        dLon == lon2 - lon1
    IN  4 * SinHalfSq4(dLat) + Cos2(lat1) * Cos2(lat1) * SinHalfSq4(dLon)

\* 16 * a, for a = sin(dLat/2)**2 + cos(lat1)*cos(lat2)*sin(dLon/2)**2
HavA16(lat1, lon1, lat2, lon2) ==
    LET dLat == lat2 - lat1
        dLon == lon2 - lon1
    IN  4 * SinHalfSq4(dLat) + Cos2(lat1) * Cos2(lat2) * SinHalfSq4(dLon)

\* c = 2 * atan2(sqrt(a), sqrt(1 - a)) in units of 1e-4 radian, by 16 * a
CentralAngle(a16) ==
    <<0, 5054, 7227, 8957, 10472, 11864, 13181, 14455, 15708, 16961, 18235,
      19552, 20944, 22459, 24189, 26362, 31416>>[a16 + 1]

Harvesine(lat1, lon1, lat2, lon2) ==
    EarthRadiusTenths
        * CentralAngle(HavA16(Radians(lat1), Radians(lon1),
                              Radians(lat2), Radians(lon2)))

\* The coordinates tried: latitudes and longitudes in steps of 60 degrees.
MaxLatSteps == 1
MaxLonSteps == 3
Latitudes == {60 * k : k \in (0 - MaxLatSteps)..MaxLatSteps}
Longitudes == {60 * k : k \in (0 - MaxLonSteps)..MaxLonSteps}

\* The generator not yet created
GenIdle ==
    /\ g_pc = "idle"
    /\ g_map = EmptyDict
    /\ g_i = 0
    /\ g_j = 0
    /\ rows = <<>>
    /\ rows_src = <<>>
    /\ calls = 0
    /\ prev = Unset

\* Neither main nor get_honda_odyssey_inventory called
MainIdle ==
    /\ m_entry = "none"
    /\ m_cookie = PyNone
    /\ env_file = "ok"
    /\ env_net = "ok"
    /\ env_disk = "ok"
    /\ m_pc = "idle"
    /\ m_log = <<>>
    /\ m_df = Unset
    /\ m_csv = FALSE
    /\ m_handler = "none"
    /\ m_exc = "none"

(***************************************************************************)
(* Specification of format_price on its own.                               *)
(***************************************************************************)
InitPrice ==
    /\ fp_in \in PriceInputs
    /\ fp_out = Unset
    /\ hv_in = <<0, 0, 0, 0>>
    /\ hv_out = Unset
    /\ data = EmptyDict
    /\ GenIdle
    /\ MainIdle

FormatPriceCall ==
    /\ fp_out = Unset
    /\ fp_out' = FormatPrice(fp_in)
    /\ UNCHANGED <<fp_in, hvVars, genVars, mainVars>>

NextPrice == FormatPriceCall

SpecPrice == InitPrice /\ [][NextPrice]_vars

(***************************************************************************)
(* Specification of harvesine on its own.                                  *)
(***************************************************************************)
InitGeo ==
    /\ hv_in \in Latitudes \X Longitudes \X Latitudes \X Longitudes
    /\ hv_out = Unset
    /\ fp_in = PyNone
    /\ fp_out = Unset
    /\ data = EmptyDict
    /\ GenIdle
    /\ MainIdle

HarvesineCall ==
    /\ hv_out = Unset
    /\ hv_out' = Ret(Harvesine(hv_in[1], hv_in[2], hv_in[3], hv_in[4]))
    /\ UNCHANGED <<hv_in, fpVars, genVars, mainVars>>

NextGeo == HarvesineCall

SpecGeo == InitGeo /\ [][NextGeo]_vars

(***************************************************************************)
(* Specification of iter_inventory_rows: the generator is created, then    *)
(* resumed until it is exhausted or raises, as the list comprehension of   *)
(* line 240 consumes it; then it may be invoked again on the same response.*)
(***************************************************************************)
InitFlatten ==
    /\ IsResponse(data)
    /\ GenIdle
    /\ MainIdle
    /\ fp_in = PyNone
    /\ fp_out = Unset
    /\ hv_in = <<0, 0, 0, 0>>
    /\ hv_out = Unset

\* (mutant) the rows are gathered in a list the invocations share
IterInventoryRowsShared ==
    /\ g_pc \in {"idle", "done", "raised"}
    /\ calls < MaxCalls
    /\ calls' = calls + 1
    /\ prev' = IF calls = 0 THEN Unset ELSE [pc |-> g_pc, rows |-> rows]
    /\ g_pc' = "created"
    /\ g_map' = EmptyDict
    /\ g_i' = 0
    /\ g_j' = 0
    /\ UNCHANGED <<rows, rows_src, data, fpVars, hvVars, mainVars>>

\* iter_inventory_rows(data): a generator object, nothing run yet
IterInventoryRows ==
    /\ g_pc \in {"idle", "done", "raised"}
    /\ calls < MaxCalls
    /\ calls' = calls + 1
    /\ prev' = IF calls = 0 THEN Unset ELSE [pc |-> g_pc, rows |-> rows]
    /\ g_pc' = "created"
    /\ g_map' = EmptyDict
    /\ g_i' = 0
    /\ g_j' = 0
    /\ rows' = <<>>
    /\ rows_src' = <<>>
    /\ UNCHANGED <<data, fpVars, hvVars, mainVars>>

\* next(generator): the first one builds the dealer map and enters the loop
GenNext ==
    /\ g_pc \in {"created", "suspended"}
    /\ \E dealer_map \in {IF g_pc = "created" THEN BuildDealerMap(data)
                          ELSE g_map} :
         \E r \in {IF g_pc = "created"
                   THEN Advance(Inventory(data), dealer_map, 1, 0)
                   ELSE Advance(Inventory(data), dealer_map, g_i, g_j + 1)} :
           /\ g_map' = dealer_map
           /\ \/ /\ r.k = "yield"
                 /\ g_pc' = "suspended"
                 /\ g_i' = r.i
                 /\ g_j' = r.j
                 /\ rows' = Append(rows, r.row)
                 /\ rows_src' = Append(rows_src, <<r.i, r.j>>)
              \/ /\ r.k = "stop"
                 /\ g_pc' = "done"
                 /\ UNCHANGED <<g_i, g_j, rows, rows_src>>
              \/ /\ r.k = "raise"
                 /\ g_pc' = "raised"
                 /\ UNCHANGED <<g_i, g_j, rows, rows_src>>
    /\ data' = data
    /\ UNCHANGED <<calls, prev, fpVars, hvVars, mainVars>>

NextFlatten == IterInventoryRows \/ GenNext

SpecFlatten == InitFlatten /\ [][NextFlatten]_vars

(***************************************************************************)
(* load_cookie, fetch_inventory_data, get_honda_odyssey_inventory and main *)
(* (src/main.py:16-41, 90-112, 213-243, 246-269)                           *)
(***************************************************************************)
\* load_cookie(), by the state of the .cookie file
LoadCookie(file) ==
    IF file = "missing" THEN Raise("FileNotFoundError")
    ELSE LET read == CASE file = "unreadable" -> Raise("PermissionError")
                       [] file = "empty" -> Raise("ValueError")
                       [] file = "ok" -> Ret(Txt("cookie-from-file"))
         IN  IF read.k = "raise" THEN Raise("IOError") ELSE read

\* fetch_inventory_data(...), by what the network does: the response parsed,
\* or the exception of requests.get, raise_for_status or response.json
FetchInventoryData(net, response) ==
    CASE net = "ok" -> Ret(response)
      [] net = "ConnectionError" -> Raise("ConnectionError")
      [] net = "HTTPError" -> Raise("HTTPError")
      [] net = "JSONDecodeError" -> Raise("JSONDecodeError")

\* The exceptions that are requests.RequestException
RequestExceptions == {"ConnectionError", "HTTPError", "JSONDecodeError"}

\* [row for row in iter_inventory_rows(data)]: the generator consumed from
\* place <<i, j>> on, the rows so far in acc
RECURSIVE Consume(_, _, _, _, _)
Consume(items, dealer_map, i, j, acc) ==
    LET r == Advance(items, dealer_map, i, j)
    IN  IF r.k = "yield"
        THEN Consume(items, dealer_map, r.i, r.j + 1, Append(acc, r.row))
        ELSE IF r.k = "raise" THEN r
        ELSE Ret(acc)

AllRows(d) == Consume(Inventory(d), BuildDealerMap(d), 1, 0, <<>>)

\* (mutant) no `except Exception` clause
MainHandlerNarrow(exc) ==
    IF exc = "FileNotFoundError" THEN "cookie"
    ELSE IF exc \in RequestExceptions THEN "request"
    ELSE "none"

\* The except clause of main that catches an exception ("none": not caught)
MainHandler(exc) ==
    IF exc = "FileNotFoundError" THEN "cookie"
    ELSE IF exc \in RequestExceptions THEN "request"
    ELSE "unexpected"

\* An exception leaves get_honda_odyssey_inventory: main catches it, any
\* other caller receives it
Unwind(exc) ==
    IF m_entry = "main" /\ MainHandler(exc) # "none"
    THEN /\ m_pc' = "returned"
         /\ m_handler' = MainHandler(exc)
         /\ m_exc' = m_exc
    ELSE /\ m_pc' = "raised"
         /\ m_exc' = exc
         /\ m_handler' = m_handler

envVars == <<m_entry, m_cookie, env_file, env_net, env_disk>>

\* Lines 235-236
LoadCookieStep ==
    /\ m_pc = "start"
    /\ IF m_cookie # PyNone
       THEN /\ m_pc' = "fetch"
            /\ UNCHANGED <<m_log, m_handler, m_exc>>
       ELSE /\ m_log' = Append(m_log, "load_cookie")
            /\ IF LoadCookie(env_file).k = "raise"
               THEN Unwind(LoadCookie(env_file).exc)
               ELSE /\ m_pc' = "fetch"
                    /\ UNCHANGED <<m_handler, m_exc>>
    /\ UNCHANGED <<envVars, m_df, m_csv, fpVars, hvVars, genVars>>

\* Line 238
FetchStep ==
    /\ m_pc = "fetch"
    /\ m_log' = Append(m_log, "fetch")
    /\ IF FetchInventoryData(env_net, data).k = "raise"
       THEN Unwind(FetchInventoryData(env_net, data).exc)
       ELSE /\ m_pc' = "flatten"
            /\ UNCHANGED <<m_handler, m_exc>>
    /\ UNCHANGED <<envVars, m_df, m_csv, fpVars, hvVars, genVars>>

\* Lines 240-243
FlattenStep ==
    /\ m_pc = "flatten"
    /\ m_log' = Append(m_log, "flatten")
    /\ \E r \in {AllRows(data)} :
         IF r.k = "raise"
         THEN Unwind(r.exc) /\ m_df' = m_df
         ELSE /\ m_df' = Ret(r.v)
              /\ m_pc' = IF m_entry = "main" THEN "save" ELSE "returned"
              /\ UNCHANGED <<m_handler, m_exc>>
    /\ UNCHANGED <<envVars, m_csv, fpVars, hvVars, genVars>>

\* Lines 254-260
SaveStep ==
    /\ m_pc = "save"
    /\ m_log' = Append(m_log, "to_csv")
    /\ IF env_disk = "ok"
       THEN /\ m_csv' = TRUE
            /\ m_pc' = "returned"
            /\ UNCHANGED <<m_handler, m_exc>>
       ELSE /\ Unwind("OSError")
            /\ m_csv' = m_csv
    /\ UNCHANGED <<envVars, m_df, fpVars, hvVars, genVars>>

\* The responses the server may send
MainResponses ==
    {EmptyDict,
     [dealers |-> AcmeDealers,
      inventory |-> <<Realize(Shape(BaseHead, TRUE, <<"valid", "valid">>), 1)>>],
     [dealers |-> AcmeDealers,
      inventory |->
        <<Realize(Shape(BaseHead, TRUE, <<"valid">>), 1),
          Realize(Shape(SetOpt(BaseHead, "ModelMSRP",
                               Present(PyStr(<<"SUP2">>))),
                        TRUE, <<"valid">>), 2)>>]}

InitMain ==
    /\ \/ m_entry = "main" /\ m_cookie = PyNone
       \/ /\ m_entry = "get_honda_odyssey_inventory"
          /\ m_cookie \in {PyNone, Txt("cookie-from-caller")}
    /\ env_file \in {"missing", "unreadable", "empty", "ok"}
    /\ env_net \in {"ok", "ConnectionError", "HTTPError", "JSONDecodeError"}
    /\ env_disk \in {"ok", "full"}
    /\ data \in MainResponses
    /\ m_pc = "start"
    /\ m_log = <<>>
    /\ m_df = Unset
    /\ m_csv = FALSE
    /\ m_handler = "none"
    /\ m_exc = "none"
    /\ GenIdle
    /\ fp_in = PyNone
    /\ fp_out = Unset
    /\ hv_in = <<0, 0, 0, 0>>
    /\ hv_out = Unset

NextMain == LoadCookieStep \/ FetchStep \/ FlattenStep \/ SaveStep

SpecMain == InitMain /\ [][NextMain]_vars

(***************************************************************************)
(* What the claims speak of.                                               *)
(***************************************************************************)
\* A VIN entry whose VIN is present and non-empty
HasVin(entry) ==
    "VIN" \in DOMAIN entry /\ entry["VIN"] # EmptyStr /\ entry["VIN"] # PyNone

VinsOf(item) == IF "VINs" \in DOMAIN item THEN item["VINs"] ELSE <<>>

\* The <<item, entry>> places of the valid VINs, items in order and entries
\* in order within an item, from place <<i, j>> on
RECURSIVE ValidPlaces(_, _, _)
ValidPlaces(inv, i, j) ==
    IF i > Len(inv) THEN <<>>
    ELSE IF j > Len(VinsOf(inv[i])) THEN ValidPlaces(inv, i + 1, 1)
    ELSE (IF HasVin(VinsOf(inv[i])[j]) THEN <<<<i, j>>>> ELSE <<>>)
         \o ValidPlaces(inv, i, j + 1)

RECURSIVE SumVins(_, _)
SumVins(inv, i) ==
    IF i > Len(inv) THEN 0 ELSE Len(VinsOf(inv[i])) + SumVins(inv, i + 1)

InventoryOf(d) == IF "inventory" \in DOMAIN d THEN d["inventory"] ELSE <<>>
DealersOf(d) == IF "dealers" \in DOMAIN d THEN d["dealers"] ELSE <<>>

\* A dealer number coerced to a string; an absent one reads "None"
Coerced(d) ==
    IF "DealerNumber" \notin DOMAIN d THEN <<"N", "o", "n", "e">>
    ELSE IF d["DealerNumber"].t = "int" THEN IntToStr(d["DealerNumber"].n)
    ELSE d["DealerNumber"].s

Finished == g_pc \in {"done", "raised"}

\* The places of the rows yielded for item i
PlacesOfItem(i) ==
    SelectSeq(rows_src, LAMBDA p : p[1] = i)

NoDealerFields(row) ==
    /\ row.address1 = EmptyStr /\ row.city = EmptyStr /\ row.state = EmptyStr
    /\ row.postal = EmptyStr /\ row.phone = EmptyStr /\ row.lat = EmptyStr
    /\ row.lon = EmptyStr /\ row.retail_url = EmptyStr

(***************************************************************************)
(* C1: once iter_inventory_rows has been consumed it has raised nothing    *)
(* and yielded exactly one row per VIN entry with a present, non-empty     *)
(* VIN, in the order of the items and of their entries; every row has a    *)
(* non-empty VIN, and there are at most as many rows as VIN entries.       *)
(***************************************************************************)
C1_OneRowPerValidVin ==
    Finished =>
        /\ g_pc = "done"
        /\ rows_src = ValidPlaces(InventoryOf(data), 1, 1)
        /\ \A k \in 1..Len(rows) :
             /\ rows[k].vin = VinsOf(InventoryOf(data)[rows_src[k][1]])[rows_src[k][2]]["VIN"]
             /\ rows[k].vin # EmptyStr
        /\ Len(rows) <= SumVins(InventoryOf(data), 1)

(***************************************************************************)
(* C2: for every item whose dealer number, as a string, is no key of the   *)
(* dealer index, no error is raised and the item yields one row per valid  *)
(* VIN, with dealer "Unknown dealer" and every other dealer field empty.   *)
(***************************************************************************)
C2_LenientJoin ==
    Finished =>
        \A i \in 1..Len(InventoryOf(data)) :
            Coerced(InventoryOf(data)[i])
                \notin {Coerced(d) : d \in {DealersOf(data)[x] : x \in 1..Len(DealersOf(data))}}
            => /\ g_pc = "done"
               /\ PlacesOfItem(i)
                    = SelectSeq(ValidPlaces(InventoryOf(data), 1, 1),
                                LAMBDA p : p[1] = i)
               /\ \A k \in 1..Len(rows) :
                    rows_src[k][1] = i
                    => rows[k].dealer = Txt("Unknown dealer")
                       /\ NoDealerFields(rows[k])

(***************************************************************************)
(* C3: the color of every row is the item's ExteriorColor if present and   *)
(* non-empty, else its ModelBaseColor if present and non-empty, else       *)
(* "(Unknown color)".                                                      *)
(***************************************************************************)
C3_ColorFallback ==
    \A k \in 1..Len(rows) :
        LET item == InventoryOf(data)[rows_src[k][1]]
            hasExt == "ExteriorColor" \in DOMAIN item
                      /\ item["ExteriorColor"] # EmptyStr
            hasBase == "ModelBaseColor" \in DOMAIN item
                       /\ item["ModelBaseColor"] # EmptyStr
        IN  rows[k].color =
                IF hasExt THEN item["ExteriorColor"]
                ELSE IF hasBase THEN item["ModelBaseColor"]
                ELSE Txt("(Unknown color)")

\* A row of an item with ExteriorColor "" took its ModelBaseColor, and a row
\* of an item with both colors took its ExteriorColor
C3_Witness ==
    /\ \E k \in 1..Len(rows) :
         LET item == InventoryOf(data)[rows_src[k][1]]
         IN  /\ "ExteriorColor" \in DOMAIN item
             /\ item["ExteriorColor"] = EmptyStr
             /\ rows[k].color = Txt("Silver")
    /\ \E k \in 1..Len(rows) :
         LET item == InventoryOf(data)[rows_src[k][1]]
         IN  /\ "ModelBaseColor" \in DOMAIN item
             /\ item["ModelBaseColor"] = Txt("Silver")
             /\ rows[k].color = Txt("Red")

\* Decimal digits, at least one, with at most one "."
NumericLooking(s) ==
    /\ \A i \in 1..Len(s) : IsDecimalChar(s[i]) \/ s[i] = "."
    /\ Cardinality({i \in 1..Len(s) : s[i] = "."}) <= 1
    /\ \E i \in 1..Len(s) : IsDecimalChar(s[i])

(***************************************************************************)
(* C4: format_price gives "N/A" for None; "$" and the grouped, rounded     *)
(* value for a string of decimal digits with at most one "." and for an    *)
(* int or float, the string and the number it denotes alike; and the       *)
(* string representation, unchanged, for every other value.                *)
(***************************************************************************)
C4_PriceMapping ==
    fp_out # Unset =>
        IF fp_in = PyNone THEN fp_out = Ret(<<"N", "/", "A">>)
        ELSE IF fp_in.t = "str" /\ NumericLooking(fp_in.s)
        THEN /\ fp_out = Ret(Currency(ParseFloat(fp_in.s).v.num,
                                      ParseFloat(fp_in.s).v.den))
             /\ fp_out = FormatPrice(ParseFloat(fp_in.s).v)
        ELSE IF fp_in.t = "int" THEN fp_out = Ret(Currency(fp_in.n, 1))
        ELSE IF fp_in.t = "float"
        THEN fp_out = Ret(Currency(fp_in.num, fp_in.den))
        ELSE fp_out = Ret(StrOf(fp_in))

(***************************************************************************)
(* C5: format_price never raises: whatever its argument, it returns.       *)
(***************************************************************************)
C5_NeverRaises == fp_out # Unset => fp_out.k = "ret"

FieldOr(d, k, default) == IF k \in DOMAIN d THEN d[k] ELSE default

ExpectedRecord(d) ==
    [name |-> FieldOr(d, "Name", EmptyStr),
     address1 |-> FieldOr(d, "Address1", EmptyStr),
     city |-> FieldOr(d, "City", EmptyStr),
     state |-> FieldOr(d, "State", EmptyStr),
     postal |-> FieldOr(d, "ZipCode", EmptyStr),
     phone |-> FieldOr(d, "Phone", EmptyStr),
     lat |-> FieldOr(d, "Latitude", PyNone),
     lon |-> FieldOr(d, "Longitude", PyNone),
     retail_url |-> FieldOr(d, "OnlineRetailingURL", EmptyStr)]

\* The place of the last dealer of a number
LastOf(dealers, key) ==
    CHOOSE x \in 1..Len(dealers) :
        /\ Coerced(dealers[x]) = key
        /\ \A y \in (x + 1)..Len(dealers) : Coerced(dealers[y]) # key

MapBuilt == g_pc \in {"suspended", "done", "raised"}

(***************************************************************************)
(* C7: the keys of the dealer map are exactly the dealer numbers of the    *)
(* dealers, coerced to strings; of the dealers that share a number the     *)
(* last one's record is kept; a record has "" for every missing text field *)
(* and None for a missing latitude or longitude.                           *)
(***************************************************************************)
C7_DealerMap ==
    MapBuilt =>
        LET dealers == DealersOf(data)
        IN  /\ DOMAIN g_map = {Coerced(dealers[x]) : x \in 1..Len(dealers)}
            /\ \A key \in DOMAIN g_map :
                 g_map[key] = ExpectedRecord(dealers[LastOf(dealers, key)])

\* Two dealers share a number, one as an int and one as a string, and differ;
\* the map holds the record of the second, a missing field of it defaulted
C7_Witness ==
    /\ MapBuilt
    /\ Len(DealersOf(data)) = 2
    /\ DealersOf(data)[1] = [DealerNumber |-> PyInt(100), Name |-> Txt("Zed")]
    /\ Coerced(DealersOf(data)[2]) = Num100
    /\ g_map[Num100].name = Txt("Acme")
    /\ DOMAIN g_map = {Num100}

EmptyValues == {EmptyStr, PyNone}

(***************************************************************************)
(* C8: every row of an item that carries no DealerNumber has an all-empty  *)
(* dealer sub-record, whatever the dealers collection holds: no attribute  *)
(* of a dealer of the collection appears in it.                            *)
(***************************************************************************)
C8_NoDealerNumber ==
    \A k \in 1..Len(rows) :
        "DealerNumber" \notin DOMAIN InventoryOf(data)[rows_src[k][1]]
        => /\ rows[k].dealer \in {Txt("Unknown dealer")} \cup EmptyValues
           /\ \A f \in {"address1", "city", "state", "postal", "phone", "lat",
                         "lon", "retail_url"} : rows[k][f] \in EmptyValues

(***************************************************************************)
(* C9: no step of iter_inventory_rows changes the response, and a second   *)
(* invocation on the same response ends as the first did, with the same    *)
(* rows in the same order.                                                 *)
(***************************************************************************)
C9_Stateless ==
    [][/\ data' = data
       /\ (g_pc' \in {"done", "raised"} /\ prev' # Unset
           => g_pc' = prev'.pc /\ rows' = prev'.rows)]_vars

\* A second invocation has ended, as the first, with two rows or more
C9_Witness ==
    /\ calls = 2
    /\ g_pc = "done"
    /\ Len(rows) >= 2
    /\ prev = [pc |-> "done", rows |-> rows]

IsPrefix(s, t) == Len(s) <= Len(t) /\ \A i \in 1..Len(s) : s[i] = t[i]
Logged(step) == \E i \in 1..Len(m_log) : m_log[i] = step
CookieFileBad == env_file \in {"missing", "empty", "unreadable"}

(***************************************************************************)
(* C10: the steps run in the order load cookie, fetch, flatten, write CSV; *)
(* the cookie file is read only when no cookie string was supplied; with   *)
(* the cookie file missing, empty or unreadable no request is made; when   *)
(* cookie loading or the fetch fails no CSV file is written; and main      *)
(* never lets an exception out.                                            *)
(***************************************************************************)
C10_MainSteps ==
    /\ IsPrefix(m_log, IF m_cookie = PyNone
                       THEN <<"load_cookie", "fetch", "flatten", "to_csv">>
                       ELSE <<"fetch", "flatten">>)
    /\ Logged("load_cookie") => m_cookie = PyNone
    /\ m_cookie = PyNone /\ CookieFileBad => ~Logged("fetch")
    /\ (m_cookie = PyNone /\ CookieFileBad) \/ env_net # "ok" => ~m_csv
    /\ m_entry = "main" => m_pc # "raised" /\ m_exc = "none"

\* main has returned through its last except clause after load_cookie found
\* an empty cookie file: no request made, no CSV written
C10_Witness ==
    /\ m_entry = "main"
    /\ m_pc = "returned"
    /\ env_file = "empty"
    /\ m_handler = "unexpected"
    /\ m_log = <<"load_cookie">>
    /\ ~m_csv

====
